---- MODULE Spec2Model ----
(***************************************************************************)
(* A model of src/app.py: the Discord chat bot's message handler           *)
(* (DiscordChatBot._handle_message, _generate_response, _build_prompt),    *)
(* its in-process message memory and its SQLite store (BotDatabase).       *)
(*                                                                         *)
(* Handlers are asyncio tasks on one event loop: a handler runs without    *)
(* interruption up to its next `await`.  The only awaits that suspend are  *)
(* the two message.channel.send calls (lines 354 and 388); the store calls *)
(* and the completion call (line 345, the synchronous OpenAI client) block *)
(* the loop.  The collaborators are modelled at their interface: a store   *)
(* call, the completion call or channel.send may raise; a send that raises *)
(* has delivered nothing; int(time.time()) is the wall clock and may go    *)
(* back; the store returns rows of equal ts in either rowid order; the     *)
(* only whitespace in a text is the space.                                 *)
(*                                                                         *)
(* Init is the state after DiscordChatBot.__init__: the memory is empty,   *)
(* the store is empty or holds what an earlier run left in bot.db.         *)
(*                                                                         *)
(* Spec is a short run with every input and every failure, SpecFair        *)
(* the same with the fairness of the completion call and of the event      *)
(* loop; SpecLong is a long run of one conversation, which fills the       *)
(* memory past 100; SpecMarkup is a run on texts made of the bot's markup. *)
(***************************************************************************)
EXTENDS Integers, Sequences, FiniteSets, TLC

\* ---------------------------------------------------------------- constants

\* None in an integer position (an id, a NULL in an INTEGER column): no id is 0
None == 0

\* len(self.global_message_memory) > 100 (line 318), [-100:] (line 335)
MemoryLimit == 100
\* get_recent_messages_for_channel(..., limit=100) (lines 168, 330)
ContextLimit == 100
\* memory_length % 5 == 0 (line 396)
RefreshEvery == 5
\* memory_length > 40 (line 404)
AnnoyedAfter == 40
\* error_message (line 386)
ErrorMessage == "Sorry, there was an error processing your request."
\* self.bot_personality (lines 229-238)
bot_personality == "I am Big Floppa"

\* self.bot.user once logged in: its id and name
BotId == 9
BotName == "Floppa"
BotUser == [id |-> BotId, name |-> BotName, discriminator |-> "0", bot |-> TRUE]

\* ------------------------------------------------------------------ bounds

\* Spec: user messages delivered to on_message, those of earlier runs included
MaxMessages == 2
\* Spec: the largest value int(time.time()) takes
MaxClock == 1
\* Spec: calls of the store and of channel.send that raise, and readings of
\* the clock below the one before
MaxFaults == 1
\* SpecLong: user messages delivered before the first mention of the bot
MaxQuiet == 100
\* SpecLong: user messages delivered from the first mention on
MaxBurst == 2
\* SpecMarkup: the pieces a message text is put together from, and the messages
MaxPieces == 3
MaxCrafted == 1

\* ------------------------------------------------------------------ text

\* A text is a sequence of one-character strings; Str is the Python str.
RECURSIVE Str(_)
Str(cs) == IF cs = <<>> THEN "" ELSE Head(cs) \o Str(Tail(cs))

IsPrefix(p, s) == Len(p) <= Len(s) /\ SubSeq(s, 1, Len(p)) = p

\* str.replace(old, ''): leftmost non-overlapping occurrences, one pass
RECURSIVE Remove(_, _)
Remove(s, old) ==
    IF s = <<>> THEN <<>>
    ELSE IF IsPrefix(old, s) THEN Remove(SubSeq(s, Len(old) + 1, Len(s)), old)
    ELSE <<Head(s)>> \o Remove(Tail(s), old)

RECURSIVE LStrip(_)
LStrip(s) == IF s # <<>> /\ Head(s) = " " THEN LStrip(Tail(s)) ELSE s

RECURSIVE RStrip(_)
RStrip(s) ==
    IF s # <<>> /\ s[Len(s)] = " " THEN RStrip(SubSeq(s, 1, Len(s) - 1)) ELSE s

\* str.strip()
Strip(s) == RStrip(LStrip(s))

\* f'<@{self.bot.user.id}>' and f'<@!{self.bot.user.id}>' (line 338)
MentionPlain == <<"<", "@", "9", ">">>
MentionNick == <<"<", "@", "!", "9", ">">>

\* message.content.replace(..., '').replace(..., '').strip() (line 338)
clean_message(content) == Strip(Remove(Remove(content, MentionPlain), MentionNick))

\* f"{name}: {content}" (lines 185, 315, 357, 389)
Line(name, content) == name \o ": " \o content

RECURSIVE Occurs(_, _)
Occurs(old, s) ==
    IF Len(s) < Len(old) THEN FALSE
    ELSE IsPrefix(old, s) \/ Occurs(old, Tail(s))

\* ----------------------------------------------------------------- inputs

Alice == [id |-> 1, name |-> "Alice", discriminator |-> "0", bot |-> FALSE]
Bob == [id |-> 2, name |-> "Bob", discriminator |-> "0", bot |-> FALSE]
Authors == {Alice, Bob}

\* message.channel.id; GuildOf is message.guild.id (None in a direct message)
Channels == {11, 12}
GuildOf(channel) == IF channel = 11 THEN 7 ELSE None

Hi == <<"h", "i">>
Contents == {Hi, MentionPlain \o <<" ">> \o Hi}

\* Alice writes in the guild channel and may mention the bot; Bob writes in his
\* direct-message channel.  The platform sets message.mentions from the markup.
UserMessages ==
    {m \in [author : Authors, channel : Channels, content : Contents,
            mentioned : BOOLEAN] :
        /\ m.mentioned <=> Occurs(MentionPlain, m.content)
        /\ m.author = Bob <=> m.channel = 12
        /\ m.author = Bob => ~m.mentioned}

\* SpecLong: one author in one channel
SteadyMessages == {m \in UserMessages : m.author = Alice}

\* SpecMarkup: texts put together from markup, parts of markup and plain text
Pieces == {<<"<">>, <<"@", "9", ">">>, MentionPlain, MentionNick, Hi, <<" ">>}

RECURSIVE Texts(_)
Texts(n) ==
    IF n = 0 THEN {<<>>}
    ELSE LET shorter == Texts(n - 1)
         IN  shorter \cup {t \o p : t \in shorter, p \in Pieces}

\* Alice's messages whose text holds the bot's markup: the platform lists the
\* bot in message.mentions
CraftedMessages ==
    {[author |-> Alice, channel |-> 11, content |-> c, mentioned |-> TRUE] :
        c \in {x \in Texts(MaxPieces) :
                  Occurs(MentionPlain, x) \/ Occurs(MentionNick, x)}}

\* What a store call does: return, or raise sqlite3.Error
WriteOutcomes == {"ok", "upsert_raises", "log_raises"}
ReadOutcomes == {"ok", "raises"}

\* What chat.completions.create does: return a choice whose content is a text
\* or None, or raise
Completions ==
    {[kind |-> "text", content |-> <<" ", "o", "k", " ">>],
     [kind |-> "no_content", content |-> <<>>],
     [kind |-> "raises", content |-> <<>>]}

\* ------------------------------------------------------------------ state

VARIABLES
    bot_user,                \* self.bot.user: <<>> (None) until logged in, then <<BotUser>>
    global_message_memory,   \* self.global_message_memory (line 248)
    users,                   \* table users: user_id -> row
    messages,                \* table messages, in rowid order
    now,                     \* the last value of int(time.time())
    set_back,                \* readings of the clock below the one before
    kept,                    \* the rows of table messages at __init__, from earlier runs
    received,                \* user messages handled so far; the next message.id
    calling,                 \* <<h>>: handler h is inside chat.completions.create
    sending,                 \* the handlers suspended in `await message.channel.send`
    sent,                    \* the channel.send calls that have ended, in order
    faults,                  \* store calls that have raised so far
    escaped,                 \* message ids whose handler ended by raising
    api_log,                 \* one record per chat.completions.create call
    appended,                \* every line appended to the memory since start
    said                     \* per channel: the lines of its messages and replies

vars ==
    <<bot_user, global_message_memory, users, messages, now, set_back, kept, received, calling,
      sending, sent, faults, escaped, api_log, appended, said>>

\* ------------------------------------------------------------ BotDatabase

\* upsert_user as INSERT OR REPLACE: the row is written anew on every call
upsert_user_replace(us, user_id, username, discriminator, is_bot, now_ts, increment_message, increment_mention) ==
    [id \in DOMAIN us \cup {user_id} |->
        IF id = user_id
        THEN [username |-> username, discriminator |-> discriminator,
              is_bot |-> is_bot, first_seen_at |-> now_ts, last_seen_at |-> now_ts,
              message_count |-> IF increment_message THEN 1 ELSE 0,
              mention_count |-> IF increment_mention THEN 1 ELSE 0]
        ELSE us[id]]

\* INSERT ... ON CONFLICT(user_id) DO UPDATE (lines 113-137)
upsert_user(us, user_id, username, discriminator, is_bot, now_ts, increment_message, increment_mention) ==
    LET msg == IF increment_message THEN 1 ELSE 0
        men == IF increment_mention THEN 1 ELSE 0
    IN  IF user_id \in DOMAIN us
        THEN [us EXCEPT ![user_id] =
                [@ EXCEPT !.username = username,
                          !.discriminator = discriminator,
                          !.is_bot = is_bot,
                          !.last_seen_at = now_ts,
                          !.message_count = @ + msg,
                          !.mention_count = @ + men]]
        ELSE us @@ (user_id :>
                [username |-> username, discriminator |-> discriminator,
                 is_bot |-> is_bot, first_seen_at |-> now_ts,
                 last_seen_at |-> now_ts, message_count |-> msg,
                 mention_count |-> men])

\* INSERT INTO messages (lines 151-166); id is the AUTOINCREMENT rowid
log_message(ms, ts, user_id, username, guild_id, channel_id, message_id, is_bot, content) ==
    Append(ms, [id |-> Len(ms) + 1, ts |-> ts, user_id |-> user_id,
                username |-> username, guild_id |-> guild_id,
                channel_id |-> channel_id, message_id |-> message_id,
                is_bot |-> is_bot, content |-> content])

\* ORDER BY ts DESC (line 175) names no second key, so the order of rows of
\* equal ts is the engine's: descending rowid when it scans
\* idx_messages_channel_ts backwards, ascending rowid when it sorts a table scan
TieOrders == {"rowid_desc", "rowid_asc"}

ComesFirst(a, b, tie) == a.ts > b.ts \/ (a.ts = b.ts /\ IF tie = "rowid_desc" THEN a.id > b.id ELSE a.id < b.id)

OrderByTsDesc(rows, tie) == SortSeq(rows, LAMBDA a, b : ComesFirst(a, b, tie))

Reverse(s) == [i \in 1..Len(s) |-> s[Len(s) + 1 - i]]

\* prefix = "Bot" if row["is_bot"] else row["username"] (lines 184-185)
Render(row) == Line(IF row.is_bot THEN "Bot" ELSE row.username, row.content)

\* SELECT ... WHERE channel_id = ? ORDER BY ts DESC LIMIT ?, reversed (169-186);
\* SQLite reads a negative LIMIT as no limit
get_recent_messages_for_channel(ms, channel_id, limit, tie) ==
    LET inChannel(row) == row.channel_id = channel_id
        ordered == OrderByTsDesc(SelectSeq(ms, inChannel), tie)
        rows == IF limit < 0 \/ Len(ordered) < limit THEN ordered
                ELSE SubSeq(ordered, 1, limit)
        newestLast == Reverse(rows)
    IN  [i \in 1..Len(newestLast) |-> Render(newestLast[i])]

\* ------------------------------------------------------- _handle_message

\* lines 280-283: no self.bot.user yet, or the bot's own message
ignored(m) == bot_user = <<>> \/ m.author = Head(bot_user)

\* mentioned = self.bot.user.mentioned_in(message) (line 288)
mentioned(m) == m.mentioned

\* LogIncoming with log_message in a try of its own: it runs after a failed upsert
LogIncoming_separate_try(us, ms, m, id, now_ts, w) ==
    LET us1 == upsert_user(us, m.author.id, m.author.name, m.author.discriminator,
                           m.author.bot, now_ts, TRUE, mentioned(m))
        ms1 == log_message(ms, now_ts, m.author.id, m.author.name,
                           GuildOf(m.channel), m.channel, id, FALSE, Str(m.content))
    IN  IF w = "upsert_raises" THEN [users |-> us, messages |-> ms1, raised |-> TRUE]
        ELSE IF w = "log_raises" THEN [users |-> us1, messages |-> ms, raised |-> TRUE]
        ELSE [users |-> us1, messages |-> ms1, raised |-> FALSE]

\* the try block of lines 291-310: upsert_user, then log_message; either raises
LogIncoming(us, ms, m, id, now_ts, w) ==
    LET us1 == upsert_user(us, m.author.id, m.author.name, m.author.discriminator,
                           m.author.bot, now_ts, TRUE, mentioned(m))
        ms1 == log_message(ms, now_ts, m.author.id, m.author.name,
                           GuildOf(m.channel), m.channel, id, FALSE, Str(m.content))
    IN  IF w = "upsert_raises" THEN [users |-> us, messages |-> ms, raised |-> TRUE]
        ELSE IF w = "log_raises" THEN [users |-> us1, messages |-> ms, raised |-> TRUE]
        ELSE [users |-> us1, messages |-> ms1, raised |-> FALSE]

\* `except Exception` of lines 311-312: logged; does the exception leave?
except_incoming(raised) == FALSE

\* AppendIncoming with the memory started anew when it exceeds 100
AppendIncoming_restart(memory, line) ==
    LET mem == Append(memory, line)
    IN  IF Len(mem) > MemoryLimit THEN <<line>> ELSE mem

\* AppendIncoming with `>=` for `>` in line 318
AppendIncoming_pop_at_limit(memory, line) ==
    LET mem == Append(memory, line)
    IN  IF Len(mem) >= MemoryLimit THEN Tail(mem) ELSE mem

\* lines 315-319: append, then one pop(0) if the length exceeds 100
AppendIncoming(memory, line) ==
    LET mem == Append(memory, line)
    IN  IF Len(mem) > MemoryLimit THEN Tail(mem) ELSE mem

\* ----------------------------------------------------- _generate_response

\* lines 327-332: the store's transcript, [] when the read raises
FetchContext(ms, channel, r, tie) ==
    IF r = "raises" THEN <<>>
    ELSE get_recent_messages_for_channel(ms, channel, ContextLimit, tie)

\* `except Exception` of lines 331-332: logged, context_lines stays []
except_fetch(raised) == FALSE

\* self.global_message_memory[-100:] (line 335)
MemoryTail(memory) ==
    IF Len(memory) <= MemoryLimit THEN memory
    ELSE SubSeq(memory, Len(memory) - MemoryLimit + 1, Len(memory))

\* ContextLines with the test of line 334 inverted
ContextLines_inverted(fetched, memory) ==
    IF fetched # <<>> THEN MemoryTail(memory) ELSE fetched

\* ContextLines without lines 334-335
ContextLines_no_fallback(fetched, memory) == fetched

\* lines 334-335
ContextLines(fetched, memory) ==
    IF fetched = <<>> THEN MemoryTail(memory) ELSE fetched

\* Tone with the test of line 404 before that of line 396
Tone_annoyed_first(memory_length) ==
    IF memory_length > AnnoyedAfter THEN "Irritated"
    ELSE IF memory_length % RefreshEvery = 0 \/ memory_length = 1 THEN "Refreshed"
    ELSE "Standard"

\* the branch of _build_prompt (lines 396, 404, 413)
Tone(memory_length) ==
    IF memory_length % RefreshEvery = 0 \/ memory_length = 1 THEN "Refreshed"
    ELSE IF memory_length > AnnoyedAfter THEN "Irritated"
    ELSE "Standard"

\* _build_prompt reading the length after the suspended handlers' appends
_build_prompt_raced(author_name, message_content, context, memory) ==
    LET memory_length == Len(memory) + Cardinality(sending)
    IN  [context |-> context, persona |-> bot_personality,
         memory_length |-> memory_length, tone |-> Tone(memory_length),
         author_name |-> author_name]

\* _build_prompt (lines 391-421): the parts the f-string is made of
_build_prompt(author_name, message_content, context, memory) ==
    LET memory_length == Len(memory)
    IN  [context |-> context, persona |-> bot_personality,
         memory_length |-> memory_length, tone |-> Tone(memory_length),
         author_name |-> author_name]

\* the try block of lines 360-382, entered after line 357
LogBotResponse(us, ms, h, now_ts, w) ==
    LET us1 == upsert_user(us, BotUser.id, BotUser.name, BotUser.discriminator,
                           TRUE, now_ts, TRUE, FALSE)
        ms1 == log_message(ms, now_ts, BotUser.id, BotUser.name, h.guild, h.channel,
                           None, TRUE, h.text)
    IN  IF w = "upsert_raises" THEN [users |-> us, messages |-> ms, raised |-> TRUE]
        ELSE IF w = "log_raises" THEN [users |-> us1, messages |-> ms, raised |-> TRUE]
        ELSE [users |-> us1, messages |-> ms1, raised |-> FALSE]

\* `except Exception` of lines 383-384
except_bot_log(raised) == FALSE

\* lines 345-353: the completion returns or raises; content None has no .strip()
CompletionRaises(c) == c.kind # "text"

\* response.choices[0].message.content.strip() (line 353)
ResponseText(c) == Str(Strip(c.content))

\* `except Exception` of lines 385-389: the apology is sent instead
except_openai(raised) == FALSE

\* -------------------------------------------------------------- handlers

\* What bot.db holds when the process starts (lines 61-100, CREATE TABLE IF NOT
\* EXISTS keeps the rows): nothing on a first start, or what an earlier run
\* left; here a run in which Alice mentioned the bot and got its reply.
EarlierRun ==
    LET m == [author |-> Alice, channel |-> 11, content |-> MentionPlain \o <<" ">> \o Hi, mentioned |-> TRUE]
        first == LogIncoming(<<>>, <<>>, m, 1, 0, "ok")
        h == [guild |-> GuildOf(11), channel |-> 11, text |-> "ok"]
        reply == LogBotResponse(first.users, first.messages, h, 0, "ok")
    IN  [users |-> reply.users, messages |-> reply.messages]

Stores == {[users |-> <<>>, messages |-> <<>>], EarlierRun}

\* message.id (line 307): the platform numbers the messages over all the runs,
\* so the n-th message of this run comes after those the earlier runs recorded
Earlier == Cardinality({k \in 1..kept : ~messages[k].is_bot})

MessageId(n) == Earlier + n

\* DiscordChatBot.__init__ (lines 191-254): the memory starts empty (line 248),
\* the store is the file's (line 251)
Init ==
    /\ bot_user = <<>>
    /\ global_message_memory = <<>>
    /\ \E s \in Stores :
            /\ users = s.users
            /\ messages = s.messages
            /\ kept = Len(s.messages)
            /\ said = [c \in Channels |-> {Render(s.messages[k]) : k \in {j \in DOMAIN s.messages : s.messages[j].channel_id = c}}]
    /\ now = 0
    /\ set_back = 0
    /\ received = 0
    /\ calling = <<>>
    /\ sending = {}
    /\ sent = <<>>
    /\ faults = 0
    /\ escaped = {}
    /\ api_log = <<>>
    /\ appended = <<>>

\* the client logs in: self.bot.user is set
Login ==
    /\ bot_user = <<>>
    /\ bot_user' = <<BotUser>>
    /\ UNCHANGED <<global_message_memory, users, messages, now, set_back, kept, received, calling,
                   sending, sent, faults, escaped, api_log, appended, said>>

\* on_message -> _handle_message (lines 278-322) and, when the bot is mentioned,
\* _generate_response up to the completion call (lines 326-345).  now_ts is what
\* int(time.time()) returns, w what the store does on the writes, r on the read,
\* tie the order in which the read returns rows of equal ts.
on_message(m, now_ts, w, r, tie) ==
    /\ calling = <<>>
    /\ IF ignored(m)
       THEN UNCHANGED vars
       ELSE LET id == received + 1
                logged == LogIncoming(users, messages, m, MessageId(id), now_ts, w)
                line == Line(m.author.name, Str(m.content))
                memory == AppendIncoming(global_message_memory, line)
                fetched == FetchContext(logged.messages, m.channel, r, tie)
                context_lines == ContextLines(fetched, memory)
                clean == Str(clean_message(m.content))
                prompt == _build_prompt(m.author.name, clean, context_lines, memory)
            IN  /\ now' = now_ts
                /\ set_back' = set_back + (IF now_ts < now THEN 1 ELSE 0)
                /\ received' = id
                /\ users' = logged.users
                /\ messages' = logged.messages
                /\ IF except_incoming(logged.raised)
                   THEN /\ escaped' = escaped \cup {id}
                        /\ UNCHANGED <<global_message_memory, appended, said,
                                       calling, api_log>>
                   ELSE /\ global_message_memory' = memory
                        /\ appended' = Append(appended, line)
                        /\ said' = [said EXCEPT ![m.channel] = @ \cup {line}]
                        /\ IF mentioned(m) /\ except_fetch(r = "raises")
                           THEN /\ escaped' = escaped \cup {id}
                                /\ UNCHANGED <<calling, api_log>>
                           ELSE IF mentioned(m)
                           THEN /\ escaped' = escaped
                                /\ calling' =
                                     <<[msg |-> id, author_name |-> m.author.name,
                                        channel |-> m.channel,
                                        guild |-> GuildOf(m.channel),
                                        content |-> Str(m.content),
                                        raw |-> m.content,
                                        clean |-> clean_message(m.content),
                                        fetched |-> fetched,
                                        context |-> context_lines,
                                        user_content |-> clean,
                                        prompt |-> prompt, read |-> r,
                                        fresh |-> global_message_memory = <<>>
                                                  /\ messages = <<>>]>>
                                /\ api_log' = Append(api_log,
                                     [msg |-> id, channel |-> m.channel,
                                      author_name |-> m.author.name,
                                      memory_length |-> prompt.memory_length,
                                      tone |-> prompt.tone,
                                      n_appended |-> Len(appended) + 1,
                                      user_content |-> clean,
                                      outcome |-> "pending"])
                           ELSE UNCHANGED <<calling, api_log, escaped>>
                /\ faults' = faults + (IF logged.raised THEN 1 ELSE 0)
                               + (IF mentioned(m) /\ r = "raises" THEN 1 ELSE 0)
                /\ UNCHANGED <<bot_user, kept, sending, sent>>

\* chat.completions.create returns or raises (lines 345-354, 385-388): the reply
\* or the apology goes to channel.send and the handler is suspended there
completion_returns(c) ==
    /\ calling # <<>>
    /\ LET h == Head(calling)
           raised == CompletionRaises(c)
           text == IF raised THEN ErrorMessage ELSE ResponseText(c)
       IN  /\ calling' = <<>>
           /\ api_log' = [api_log EXCEPT ![Len(api_log)].outcome =
                                IF raised THEN "raised" ELSE "returned"]
           /\ IF raised /\ except_openai(raised)
              THEN /\ escaped' = escaped \cup {h.msg}
                   /\ UNCHANGED sending
              ELSE /\ escaped' = escaped
                   /\ sending' = sending \cup
                        {[msg |-> h.msg, channel |-> h.channel, guild |-> h.guild,
                          kind |-> IF raised THEN "apology" ELSE "reply",
                          text |-> text]}
    /\ UNCHANGED <<bot_user, global_message_memory, users, messages, now, set_back, kept, received,
                   sent, faults, appended, said>>

\* `await message.channel.send` returns: line 357 and the try block of lines
\* 360-384 after a reply, line 389 after the apology
send_returns(h, now_ts, w) ==
    /\ calling = <<>>
    /\ h \in sending
    /\ LET line == Line("Bot", h.text)
           logged == IF h.kind = "reply"
                     THEN LogBotResponse(users, messages, h, now_ts, w)
                     ELSE [users |-> users, messages |-> messages, raised |-> FALSE]
       IN  /\ sent' = Append(sent, [msg |-> h.msg, channel |-> h.channel,
                                    text |-> h.text, outcome |-> "delivered"])
           /\ said' = [said EXCEPT ![h.channel] = @ \cup {line}]
           /\ global_message_memory' = Append(global_message_memory, line)
           /\ appended' = Append(appended, line)
           /\ now' = IF h.kind = "reply" THEN now_ts ELSE now
           /\ set_back' = set_back + (IF h.kind = "reply" /\ now_ts < now THEN 1 ELSE 0)
           /\ users' = logged.users
           /\ messages' = logged.messages
           /\ faults' = faults + (IF logged.raised THEN 1 ELSE 0)
           /\ escaped' = IF except_bot_log(logged.raised)
                         THEN escaped \cup {h.msg} ELSE escaped
    /\ sending' = sending \ {h}
    /\ UNCHANGED <<bot_user, kept, received, calling, api_log>>

\* `await message.channel.send` raises.  At line 354 the `except Exception` of
\* line 385 catches it: the apology goes to channel.send (388) and the handler
\* is suspended there.  At line 388 nothing catches it: it leaves the handler
\* and line 389 is not reached.
send_raises(h) ==
    /\ calling = <<>>
    /\ h \in sending
    /\ sent' = Append(sent, [msg |-> h.msg, channel |-> h.channel,
                             text |-> h.text, outcome |-> "raised"])
    /\ IF h.kind = "reply" /\ ~except_openai(TRUE)
       THEN /\ sending' = (sending \ {h}) \cup
                    {[h EXCEPT !.kind = "apology", !.text = ErrorMessage]}
            /\ escaped' = escaped
       ELSE /\ sending' = sending \ {h}
            /\ escaped' = escaped \cup {h.msg}
    /\ UNCHANGED <<bot_user, global_message_memory, users, messages, now, set_back, kept, received,
                   calling, faults, api_log, appended, said>>

\* --------------------------------------------------------- specifications

\* int(time.time()) is the wall clock: any second, also one before the last
Clock == 0..MaxClock

\* the message the platform delivers for a text the bot sent
OwnMessage ==
    [author |-> BotUser, channel |-> 11, content |-> <<>>, mentioned |-> FALSE]

\* the channel.send calls that have raised
SendFaults == Cardinality({j \in DOMAIN sent : sent[j].outcome = "raised"})

\* what has gone wrong so far, and what a step with these inputs adds to it
Spent == faults + SendFaults + set_back

Adds(t, w, r) == (IF t < now THEN 1 ELSE 0) + (IF w # "ok" THEN 1 ELSE 0) + (IF r # "ok" THEN 1 ELSE 0)

Deliver ==
    \E m \in UserMessages, t \in Clock, w \in WriteOutcomes, r \in ReadOutcomes, tie \in TieOrders :
        /\ MessageId(received) < MaxMessages
        /\ m.mentioned \/ r = "ok"          \* the store is read for a mention only
        /\ Spent + Adds(t, w, r) <= MaxFaults
        /\ on_message(m, t, w, r, tie)

\* the platform also delivers the bot's own messages to on_message
DeliverOwn ==
    /\ \E j \in DOMAIN sent : sent[j].outcome = "delivered"
    /\ \E tie \in TieOrders : on_message(OwnMessage, now, "ok", "ok", tie)

Complete == \E c \in Completions : completion_returns(c)

Resume ==
    \E h \in sending, t \in Clock, w \in WriteOutcomes :
        /\ h.kind = "reply" \/ (t = now /\ w = "ok")   \* line 389 reads no clock, no store
        /\ Spent + Adds(t, w, "ok") <= MaxFaults
        /\ send_returns(h, t, w)

Fail ==
    \E h \in sending :
        /\ Spent < MaxFaults
        /\ send_raises(h)

Next == Login \/ Deliver \/ DeliverOwn \/ Complete \/ Resume \/ Fail

Spec == Init /\ [][Next]_vars

\* The completion call returns or raises (the client gives up after its
\* timeout), and the event loop resumes a handler whose send has ended.
SpecFair == Spec /\ WF_vars(Complete) /\ WF_vars(Resume \/ Fail)

\* A long run of one conversation with the store up: MaxQuiet messages that do
\* not mention the bot, then MaxBurst messages that may.
BurstUsed == IF api_log = <<>> THEN 0 ELSE received - api_log[1].msg + 1

DeliverSteady ==
    \E m \in SteadyMessages, tie \in TieOrders :
        /\ IF api_log = <<>> /\ ~m.mentioned
           THEN received < MaxQuiet
           ELSE BurstUsed < MaxBurst
        /\ on_message(m, now, "ok", "ok", tie)

ResumeSteady == \E h \in sending : send_returns(h, now, "ok")

\* One conversation in which any store write and any channel.send may raise.
DeliverUnsafe ==
    \E m \in SteadyMessages, w \in WriteOutcomes, tie \in TieOrders :
        /\ MessageId(received) < MaxMessages
        /\ on_message(m, now, w, "ok", tie)

ResumeUnsafe == \E h \in sending, w \in WriteOutcomes :
        /\ h.kind = "reply" \/ w = "ok"
        /\ send_returns(h, now, w)

FailUnsafe == \E h \in sending : send_raises(h)

NextSend ==
    Login \/ DeliverUnsafe \/ DeliverOwn \/ Complete \/ ResumeUnsafe \/ FailUnsafe

SpecSend == Init /\ [][NextSend]_vars

NextLong == Login \/ DeliverSteady \/ DeliverOwn \/ Complete \/ ResumeSteady

SpecLong == Init /\ [][NextLong]_vars

\* Messages whose text is put together from the bot's markup and parts of it,
\* with the store up.
DeliverCrafted ==
    \E m \in CraftedMessages, tie \in TieOrders :
        /\ received < MaxCrafted
        /\ on_message(m, now, "ok", "ok", tie)

NextMarkup == Login \/ DeliverCrafted \/ DeliverOwn \/ Complete \/ ResumeSteady

SpecMarkup == Init /\ [][NextMarkup]_vars

\* ------------------------------------------------------------ properties

LastN(seq, n) == IF Len(seq) <= n THEN seq ELSE SubSeq(seq, Len(seq) - n + 1, Len(seq))

Triggers == DOMAIN api_log

\* the channel.send calls made for a message, and those that delivered
SentFor(msg) == SelectSeq(sent, LAMBDA e : e.msg = msg)

DeliveredFor(msg) ==
    SelectSeq(sent, LAMBDA e : e.msg = msg /\ e.outcome = "delivered")

\* the lines of the user messages that mention the bot
MentionLines ==
    {Line(m.author.name, Str(m.content)) : m \in {x \in UserMessages : x.mentioned}}

\* the lines of the user messages, and the handled user messages in order:
\* Inbound[id] is the line of the message with that id
UserLines == {Line(m.author.name, Str(m.content)) : m \in UserMessages}

Inbound == SelectSeq(appended, LAMBDA l : l \in UserLines)

ChannelOfLine(l) ==
    (CHOOSE m \in UserMessages : Line(m.author.name, Str(m.content)) = l).channel

\* the bot-flagged rows of the store, and the lines equal to one line
BotRows == {k \in DOMAIN messages : k > kept /\ (messages[k].is_bot \/ messages[k].user_id = BotId)}

LinesEqual(line) == {k \in DOMAIN appended : appended[k] = line}

\* the triggers whose handler has run to its end
Finished(outcome) ==
    {i \in Triggers : /\ api_log[i].outcome = outcome
                      /\ \A h \in sending : h.msg # api_log[i].msg}

ApologyLine == "Bot: Sorry, there was an error processing your request."

\* C1: after any mutation the memory holds at most 100 lines.
C1_MemoryAtMostLimit == Len(global_message_memory) <= 100

\* C2: the memory is all appended lines in order, or, once more than 100 were
\* appended, exactly the last 100 of them.
C2_MemoryIsLastAppended == global_message_memory = LastN(appended, 100)

\* C3: the tone of every triggering message is the function of the counter n
\* alone that checks Refreshed first: n = 1 or n mod 5 = 0 Refreshed, else
\* n > 40 Irritated, else Standard.
C3_ToneByCounter ==
    \A i \in Triggers :
        LET n == api_log[i].memory_length
            tone == api_log[i].tone
        IN  /\ (n = 1 \/ n % 5 = 0) => tone = "Refreshed"
            /\ (n # 1 /\ n % 5 # 0 /\ n > 40) => tone = "Irritated"
            /\ (n # 1 /\ n % 5 # 0 /\ n <= 40) => tone = "Standard"
            /\ n \in {1, 5, 10, 45, 50} => tone = "Refreshed"
            /\ n \in (41..44) \cup (46..49) => tone = "Irritated"
            /\ n \in {2, 3, 4, 6, 7, 8, 9} => tone = "Standard"

\* an Irritated reply at 43 is followed by a Refreshed one at 45
C3_Witness ==
    \E i, j \in Triggers :
        /\ i < j
        /\ api_log[i].memory_length = 43 /\ api_log[i].tone = "Irritated"
        /\ api_log[j].memory_length = 45 /\ api_log[j].tone = "Refreshed"

\* C4: the context of a triggering message is the store's transcript of its
\* channel when the read succeeds and is not empty, and otherwise the last (up
\* to) 100 lines of the memory.
C4_ContextSource ==
    calling # <<>> =>
        LET h == Head(calling)
            transcripts == {get_recent_messages_for_channel(messages, h.channel, 100, tie) : tie \in TieOrders}
        IN  /\ h.read = "ok" => h.fetched \in transcripts
            /\ h.context = IF h.read = "ok" /\ h.fetched # <<>>
                            THEN h.fetched
                            ELSE LastN(global_message_memory, 100)

\* the transcript is used and differs from the memory
C4_Witness ==
    /\ calling # <<>>
    /\ Head(calling).read = "ok"
    /\ Head(calling).context # <<>>
    /\ Head(calling).context # global_message_memory

\* C5: when the completion call raises, the channel of the trigger receives the
\* apology and nothing else, the memory gains the one line "Bot: <apology>", the
\* store gains no bot-flagged row, and no exception leaves the handler.
C5_ApologyOnFailure ==
    /\ \A i \in Finished("raised") :
            /\ api_log[i].msg \notin escaped
            /\ SentFor(api_log[i].msg) =
                    <<[msg |-> api_log[i].msg, channel |-> api_log[i].channel,
                       text |-> ErrorMessage, outcome |-> "delivered"]>>
    /\ Cardinality(LinesEqual(ApologyLine)) >= Cardinality(Finished("raised"))
    /\ Finished("returned") = {} =>
            /\ Cardinality(LinesEqual(ApologyLine)) = Cardinality(Finished("raised"))
            /\ BotRows = {}

\* C6: when the completion call returns, the channel of the trigger receives the
\* text, the memory gains the one line "Bot: <text>" and the store, when its
\* writes succeed, the one bot-flagged row: not none and not two, also when the
\* bot's own message comes back through on_message.
C6_ReplyRecordedOnce ==
    /\ \A i \in Finished("returned") :
            SentFor(api_log[i].msg) =
                <<[msg |-> api_log[i].msg, channel |-> api_log[i].channel,
                   text |-> "ok", outcome |-> "delivered"]>>
    /\ Cardinality(LinesEqual("Bot: ok")) = Cardinality(Finished("returned"))
    /\ Cardinality(BotRows) <= Cardinality(Finished("returned"))
    /\ faults = 0 => Cardinality(BotRows) = Cardinality(Finished("returned"))

\* C7: on a fresh process (empty store, empty memory) the context of a first
\* triggering message from Alice is empty.
C7_FirstContextEmpty ==
    (calling # <<>> /\ Head(calling).fresh /\ Head(calling).author_name = "Alice")
        => Head(calling).context = <<>>

\* C7 as amended: that context is the one line of the triggering message itself.
C7_FirstContextIsTrigger ==
    (calling # <<>> /\ Head(calling).fresh /\ Head(calling).author_name = "Alice")
        => Head(calling).context = <<"Alice: " \o Head(calling).content>>

\* Alice's first message triggers on a fresh process while the store is down
C7_Witness ==
    /\ calling # <<>>
    /\ Head(calling).fresh
    /\ Head(calling).author_name = "Alice"
    /\ messages = <<>>

\* C8: while the memory is below 100 lines, the counter of a triggering message
\* is the number of lines appended since the start, its own included: 1
\* (Refreshed) for a first message, 46 (Irritated) after 45 lines.
C8_CounterCountsAppends ==
    \A i \in Triggers :
        /\ api_log[i].memory_length < 100 =>
                api_log[i].memory_length = api_log[i].n_appended
        /\ api_log[i].n_appended = 1 =>
                api_log[i].memory_length = 1 /\ api_log[i].tone = "Refreshed"
        /\ api_log[i].n_appended = 46 =>
                api_log[i].memory_length = 46 /\ api_log[i].tone = "Irritated"

\* the 46th line triggers
C8_Witness ==
    \E i \in Triggers :
        /\ api_log[i].n_appended = 46
        /\ api_log[i].memory_length = 46
        /\ api_log[i].tone = "Irritated"

\* C9: once 100 lines have been appended the counter stays at 100 and every
\* triggering message is answered Refreshed.
C9_CounterStaysAtLimit ==
    \A i \in Triggers :
        api_log[i].n_appended >= 100 =>
            api_log[i].memory_length = 100 /\ api_log[i].tone = "Refreshed"

\* C10: every line of the context of a triggering message in channel c is the
\* line of a message sent, or of a reply delivered, in channel c.
C10_ContextOfOwnChannel ==
    calling # <<>> =>
        \A k \in DOMAIN Head(calling).context :
            Head(calling).context[k] \in said[Head(calling).channel]

\* C11: a store write that raises while a message is handled does not stop the
\* handling: the line of the message is appended to the memory, a message that
\* mentions the bot still gets its completion call and its answer, and no
\* exception leaves the handler.
C11_WriteFailureSwallowed ==
    /\ Len(Inbound) = received
    /\ \A id \in 1..received :
            (\A k \in DOMAIN messages : messages[k].message_id # MessageId(id)) =>
                /\ id \notin escaped
                /\ Inbound[id] \in MentionLines =>
                        /\ \E i \in Triggers : api_log[i].msg = id
                        /\ \A i \in Finished("raised") \cup Finished("returned") :
                                api_log[i].msg = id => DeliveredFor(id) # <<>>

\* C12: while the completion call of a handler is outstanding, the handling of
\* a message that arrives on another channel is not blocked: on_message can
\* record it before the call returns.
C12_OtherChannelsNotBlocked ==
    calling # <<>> =>
        ENABLED (\E m \in UserMessages, tie \in TieOrders :
                    /\ m.channel # Head(calling).channel
                    /\ on_message(m, now, "ok", "ok", tie)
                    /\ received' = received + 1)

\* C13: two calls of upsert_user for one identity with the same arguments but a
\* later now_ts add 2 in total to each counter whose flag is set (the first call
\* creating the row with 1 per set flag) and nothing to the other, never reset
\* them, leave first_seen_at at the first call's timestamp (or where it was) and
\* set last_seen_at to the second call's timestamp.
C13_UpsertTwiceCounts ==
    \A a \in Authors \cup {BotUser}, im \in BOOLEAN, mm \in BOOLEAN :
        LET t1 == now + 1
            once == upsert_user(users, a.id, a.name, a.discriminator, a.bot, t1, im, mm)
            had == a.id \in DOMAIN users
            msg0 == IF had THEN users[a.id].message_count ELSE 0
            men0 == IF had THEN users[a.id].mention_count ELSE 0
        IN  /\ once[a.id].message_count = msg0 + (IF im THEN 1 ELSE 0)
            /\ once[a.id].mention_count = men0 + (IF mm THEN 1 ELSE 0)
            /\ \A t2 \in (t1 + 1)..(t1 + 2) :
                    LET twice == upsert_user(once, a.id, a.name, a.discriminator, a.bot,
                                             t2, im, mm)
                    IN  /\ DOMAIN twice = DOMAIN users \cup {a.id}
                        /\ twice[a.id].message_count = msg0 + (IF im THEN 2 ELSE 0)
                        /\ twice[a.id].mention_count = men0 + (IF mm THEN 2 ELSE 0)
                        /\ twice[a.id].first_seen_at =
                                IF had THEN users[a.id].first_seen_at ELSE t1
                        /\ twice[a.id].last_seen_at = t2
                        /\ twice[a.id].username = a.name
                        /\ \A id \in DOMAIN users \ {a.id} : twice[id] = users[id]

\* Alice has mentioned the bot twice and the bot has answered: rows with counts,
\* stamped before the first call, and no row yet for Bob
C13_Witness ==
    /\ 1 \in DOMAIN users /\ BotId \in DOMAIN users /\ 2 \notin DOMAIN users
    /\ users[1].message_count = 2
    /\ users[1].mention_count = 2
    /\ users[1].first_seen_at < now + 1

\* C14: for every message handled, the completion call is made at most once
\* and at most one text (the reply or the apology, never both) is sent, to the
\* channel of the message, whatever the store does; for a message that does not
\* mention the bot, and for the bot's own messages, no call is made and nothing
\* is sent.
C14_AtMostOneCallOneAnswer ==
    /\ Len(Inbound) = received
    /\ \A id \in 1..received :
            LET calls == {k \in Triggers : api_log[k].msg = id}
                answers == SentFor(id)
                waiting == {h \in sending : h.msg = id}
            IN  /\ Cardinality(calls) <= 1
                /\ Len(answers) + Cardinality(waiting) <= Cardinality(calls)
                /\ \A j \in DOMAIN answers :
                        answers[j].channel = ChannelOfLine(Inbound[id])
                /\ Inbound[id] \notin MentionLines => calls = {} /\ answers = <<>>
    /\ \A j \in DOMAIN sent : sent[j].msg \in 1..received
    /\ \A k \in Triggers : api_log[k].author_name # BotName
    /\ calling # <<>> => Head(calling).msg = api_log[Len(api_log)].msg

RECURSIVE IsSubsequence(_, _)
IsSubsequence(u, s) ==
    IF u = <<>> THEN TRUE
    ELSE IF s = <<>> THEN FALSE
    ELSE IF Head(u) = Head(s) THEN IsSubsequence(Tail(u), Tail(s))
    ELSE IsSubsequence(u, Tail(s))

\* C15: the user content sent to the completion call for a triggering message
\* holds no occurrence of the bot's markup, "<@9>" or "<@!9>", and is otherwise
\* the text of the message, in order, without the surrounding spaces.
C15_MarkupStripped ==
    calling # <<>> =>
        LET u == Head(calling).clean
        IN  /\ ~Occurs(MentionPlain, u)
            /\ ~Occurs(MentionNick, u)
            /\ IsSubsequence(u, Head(calling).raw)
            /\ u = <<>> \/ (Head(u) # " " /\ u[Len(u)] # " ")

\* the rows of a channel in the order they were inserted
RowsOf(channel) == SelectSeq(messages, LAMBDA row : row.channel_id = channel)

\* C16: get_recent_messages_for_channel(channel, limit) returns at most limit
\* lines: the last rows inserted for that channel, oldest first, a bot-flagged
\* row as "Bot: <content>" and any other as "<username>: <content>", also when
\* rows of the channel have the same ts.
C16_RecentTranscript ==
    \A c \in Channels, limit \in (0..4) \cup {ContextLimit}, tie \in TieOrders :
        LET lines == get_recent_messages_for_channel(messages, c, limit, tie)
            last == LastN(RowsOf(c), limit)
        IN  /\ Len(lines) <= limit
            /\ Len(lines) = Len(last)
            /\ \A i \in DOMAIN lines :
                    lines[i] = IF last[i].is_bot
                               THEN "Bot: " \o last[i].content
                               ELSE last[i].username \o ": " \o last[i].content

\* C17: the counter used for the tone of a triggering message is never smaller
\* than the one used for an earlier triggering message; the length of the
\* memory, which it reads, never goes down.
C17_CounterMonotonic ==
    /\ [](\A i, j \in Triggers :
            i < j => api_log[i].memory_length <= api_log[j].memory_length)
    /\ [][Len(global_message_memory') >= Len(global_message_memory)]_vars

\* two triggering messages with the memory full: counters 100 and 101
C17_Witness ==
    \E i, j \in Triggers :
        /\ i < j
        /\ api_log[i].memory_length = 100
        /\ api_log[j].memory_length = 101
        /\ Len(appended) > Len(global_message_memory)

\* C18: whatever handlers are suspended, no other handler changes the memory
\* between the append-and-trim of a triggering message and the reading of its
\* counter: the counter is the length of the memory right after that message's
\* own append-and-trim, with its line last; and no append is lost: every
\* handled message and every finished send has put one line in the memory.
C18_CounterReadAfterOwnAppend ==
    /\ [][Len(api_log') > Len(api_log) =>
            LET e == api_log'[Len(api_log')]
                n == Len(global_message_memory)
            IN  /\ e.memory_length = IF n + 1 > MemoryLimit THEN n ELSE n + 1
                /\ e.memory_length = Len(global_message_memory')
                /\ global_message_memory'[Len(global_message_memory')]
                        \in MentionLines
                /\ appended' = Append(appended,
                        global_message_memory'[Len(global_message_memory')])]_vars
    /\ [](Len(appended) = received
                + Cardinality({j \in DOMAIN sent : sent[j].outcome = "delivered"}))
    /\ [](global_message_memory = LastN(appended, Len(global_message_memory)))

\* a message triggers while the handler of an earlier one is suspended in the
\* send of its apology, the send of its reply having raised
C18_Witness ==
    /\ \E h \in sending, j \in DOMAIN sent :
            h.kind = "apology" /\ sent[j].msg = h.msg /\ sent[j].outcome = "raised"
    /\ calling # <<>>
    /\ sending # {}
    /\ api_log[Len(api_log)].memory_length = Len(global_message_memory)
    /\ \A h \in sending : h.msg < Head(calling).msg

\* the participants, the stored message counter of one and the number of its rows
Identities == {a.id : a \in Authors} \cup {BotId}

CountOf(us, id) == IF id \in DOMAIN us THEN us[id].message_count ELSE 0

RecordsOf(ms, id) == Cardinality({k \in DOMAIN ms : ms[k].user_id = id})

\* C19: for every participant, the bot included, the stored message counter is
\* at least the number of message rows with its id, and equal to it as long as
\* no store call has raised; a message whose upsert raised leaves no row.
C19_CountCoversRecords ==
    /\ [](\A id \in Identities :
            /\ CountOf(users, id) >= RecordsOf(messages, id)
            /\ faults = 0 => CountOf(users, id) = RecordsOf(messages, id))
    /\ [](\A k \in DOMAIN messages : messages[k].user_id \in DOMAIN users)
    /\ [][(users' # users \/ messages' # messages) =>
            \A id \in Identities :
                LET rows == RecordsOf(messages, id)
                    rows_after == RecordsOf(messages', id)
                    counted == CountOf(users', id) - CountOf(users, id)
                IN  /\ rows_after - rows <= counted
                    /\ counted \in {0, 1}
                    /\ rows_after >= rows]_vars
    /\ [][users' = users => messages' = messages]_vars

\* a participant with two messages counted and one row: one log_message raised
C19_Witness ==
    \E id \in Identities :
        /\ CountOf(users, id) = 2
        /\ RecordsOf(messages, id) = 1
        /\ faults = 1

\* C20: every handled message that mentions the bot is in the end answered in
\* its channel, with the generated text or with the apology, whether the
\* completion call returns or raises and whether or not the store's reads and
\* writes raise.
C20_MentionAnswered ==
    \A id \in 1..MaxMessages :
        (id <= Len(Inbound) /\ Inbound[id] \in MentionLines)
            ~> /\ id <= Len(Inbound)
               /\ \E j \in DOMAIN sent :
                    /\ sent[j].msg = id
                    /\ sent[j].outcome = "delivered"
                    /\ sent[j].channel = ChannelOfLine(Inbound[id])
                    /\ sent[j].text \in {"ok", ErrorMessage}

====
